---- MODULE Spec2Model ----
(***************************************************************************)
(* Model of the trajectory cleaning and remaining-track-miles pipeline of  *)
(* remaining-track-miles (src/data_preprocessing.py, src/data_processing.py*)
(* src/trackmiles.py, src/main.py).                                        *)
(*                                                                         *)
(* A DataFrame is a sequence of rows; a row is a record whose field idx is *)
(* the pandas index label.  A float64 cell is NaN or a double, kept with   *)
(* all its bits; the arithmetic rounds as IEEE 754 does, comparisons with  *)
(* NaN are false and arithmetic on NaN gives NaN.                          *)
(***************************************************************************)
EXTENDS Integers, Sequences, FiniteSets, TLC

VARIABLES
    adsb_data,       \* main.py: the DataFrame bound to adsb_data
    prev,            \* the DataFrame passed to the last call, as it was before the call
    arg,             \* the same DataFrame object as the caller sees it after the call
    op,              \* the last pipeline stage that ran
    airport_coords,  \* filter_flights: (lat, lon) of the reference airport
    removed,         \* remove_outliers_geoaltitude: index labels logged as removed
    prev_op,         \* the stage that ran before the last one
    raw              \* the DataFrame as load_csv_gzip returned it

vars == <<adsb_data, prev, arg, op, airport_coords, removed, prev_op, raw>>

----------------------------------------------------------------------------
(* float64 cells *)

\* A cell is NaN or a finite double.  A double is kept exactly, in one of
\* two forms.  <<n, d>> is the double n/d, d a power of two up to 2^10, n/d
\* in lowest terms and |n| < 2^20.  Every other double is <<s, M, E>>, the
\* number s * M * 2^E with s = 1 or -1 and M odd, 0 < M < 2^53; M is written
\* in digits of 15 bits, the lowest digit first.  Each double has one form
\* only, so equal doubles are equal cells.  Every operation rounds its exact
\* result to the nearest double, ties to the even mantissa, as IEEE 754
\* does; the magnitudes of the model stay far from overflow and from the
\* subnormal range, and the sign of zero is not kept.
NaN == <<0, 0>>

isna(x) == x = NaN

AbsInt(n) == IF n < 0 THEN -n ELSE n

\* The base of the digits of a mantissa.
Base == 2^15

\* The bound on |n| and the bound on d of the form <<n, d>>.
SmallNum == 2^20

SmallDen == 2^10

\* A natural number as its digits, lowest first, without leading zeros.
RECURSIVE BNorm(_)
BNorm(a) ==
    IF a = <<>> THEN a
    ELSE IF a[Len(a)] = 0 THEN BNorm(SubSeq(a, 1, Len(a) - 1))
    ELSE a

RECURSIVE BFromInt(_)
BFromInt(n) == IF n = 0 THEN <<>> ELSE <<n % Base>> \o BFromInt(n \div Base)

RECURSIVE BToInt(_)
BToInt(a) == IF a = <<>> THEN 0 ELSE a[1] + Base * BToInt(Tail(a))

BLimb(a, i) == IF i <= Len(a) THEN a[i] ELSE 0

\* a + b + c from digit i up, c the carry into digit i
RECURSIVE BAddFrom(_, _, _, _)
BAddFrom(a, b, i, c) ==
    IF i > Len(a) /\ i > Len(b) THEN (IF c = 0 THEN <<>> ELSE <<c>>)
    ELSE <<(BLimb(a, i) + BLimb(b, i) + c) % Base>>
         \o BAddFrom(a, b, i + 1, (BLimb(a, i) + BLimb(b, i) + c) \div Base)

\* a + b
BAdd(a, b) == BAddFrom(a, b, 1, 0)

\* a - b - borrow from digit i up, for a >= b
RECURSIVE BSubFrom(_, _, _, _)
BSubFrom(a, b, i, borrow) ==
    IF i > Len(a) THEN <<>>
    ELSE IF a[i] - BLimb(b, i) - borrow < 0
    THEN <<a[i] - BLimb(b, i) - borrow + Base>> \o BSubFrom(a, b, i + 1, 1)
    ELSE <<a[i] - BLimb(b, i) - borrow>> \o BSubFrom(a, b, i + 1, 0)

\* a - b for a >= b
BSub(a, b) == BNorm(BSubFrom(a, b, 1, 0))

RECURSIVE BCmpFrom(_, _, _)
BCmpFrom(a, b, i) ==
    IF i = 0 THEN 0
    ELSE IF a[i] < b[i] THEN -1
    ELSE IF a[i] > b[i] THEN 1
    ELSE BCmpFrom(a, b, i - 1)

\* -1, 0 or 1 as a < b, a = b or a > b
BCmp(a, b) ==
    IF Len(a) < Len(b) THEN -1
    ELSE IF Len(a) > Len(b) THEN 1
    ELSE BCmpFrom(a, b, Len(a))

\* a * k + c from digit i up, c the carry into digit i
RECURSIVE BMulSmallFrom(_, _, _, _)
BMulSmallFrom(a, k, i, c) ==
    IF i > Len(a) THEN (IF c = 0 THEN <<>> ELSE <<c>>)
    ELSE <<(a[i] * k + c) % Base>>
         \o BMulSmallFrom(a, k, i + 1, (a[i] * k + c) \div Base)

\* a * k for 0 <= k <= Base
BMulSmall(a, k) == IF k = 0 THEN <<>> ELSE BMulSmallFrom(a, k, 1, 0)

Zeros(q) == [i \in 1..q |-> 0]

RECURSIVE BMulFrom(_, _, _)
BMulFrom(a, b, j) ==
    IF j > Len(b) THEN <<>>
    ELSE BAdd(Zeros(j - 1) \o BMulSmall(a, b[j]), BMulFrom(a, b, j + 1))

\* a * b
BMul(a, b) == BNorm(BMulFrom(a, b, 1))

\* a * 2^k
BShl(a, k) ==
    IF a = <<>> THEN <<>>
    ELSE Zeros(k \div 15) \o BMulSmall(a, 2^(k % 15))

\* floor(a / k) for 0 < k <= Base, from digit i up, taking the digits of a
\* from the highest down to digit i; r is a mod k over the digits above i.
RECURSIVE BDivSmallFrom(_, _, _, _)
BDivSmallFrom(a, k, i, r) ==
    IF i = 0 THEN <<>>
    ELSE BDivSmallFrom(a, k, i - 1, (r * Base + a[i]) % k)
         \o <<(r * Base + a[i]) \div k>>

\* floor(a / k) for 0 < k <= Base
BDivSmall(a, k) == BNorm(BDivSmallFrom(a, k, Len(a), 0))

\* floor(a / 2^k)
BShr(a, k) ==
    IF k \div 15 >= Len(a) THEN <<>>
    ELSE BDivSmall(SubSeq(a, k \div 15 + 1, Len(a)), 2^(k % 15))

RECURSIVE BitLenInt(_)
BitLenInt(n) == IF n = 0 THEN 0 ELSE 1 + BitLenInt(n \div 2)

\* The number of bits of a.
BBitLen(a) ==
    IF a = <<>> THEN 0 ELSE (Len(a) - 1) * 15 + BitLenInt(a[Len(a)])

\* Bit k of a, bit 0 the lowest.
BBit(a, k) == (BLimb(a, k \div 15 + 1) \div 2^(k % 15)) % 2

\* a mod 2^k is not 0.
BLowNonzero(a, k) ==
    \/ \E i \in 1..Len(a) : i <= k \div 15 /\ a[i] /= 0
    \/ BLimb(a, k \div 15 + 1) % 2^(k % 15) /= 0

RECURSIVE TrailingZerosInt(_)
TrailingZerosInt(n) == IF n % 2 = 1 THEN 0 ELSE 1 + TrailingZerosInt(n \div 2)

\* The number of zero bits below the lowest set bit of a, counted from digit
\* i up, for a with a bit set there.
RECURSIVE BTrailingZerosFrom(_, _)
BTrailingZerosFrom(a, i) ==
    IF a[i] /= 0 THEN TrailingZerosInt(a[i])
    ELSE 15 + BTrailingZerosFrom(a, i + 1)

BTrailingZeros(a) == BTrailingZerosFrom(a, 1)

\* The digit t with b * t <= r < b * (t + 1) among top - 2, top - 1 and top.
QuotDigitNear(r, b, top) ==
    CHOOSE t \in {top - 2, top - 1, top} :
        /\ t >= 0
        /\ BCmp(BMulSmall(b, t), r) <= 0
        /\ BCmp(r, BMulSmall(b, t + 1)) < 0

\* The digit t with b * t <= r < b * (t + 1), for r < b * Base and the
\* highest digit of b at least Base / 2: the two highest digits of r divided
\* by the highest digit of b give t or up to 2 more.
QuotDigit(r, b) ==
    IF (BLimb(r, Len(b) + 1) * Base + BLimb(r, Len(b))) \div b[Len(b)] > Base - 1
    THEN QuotDigitNear(r, b, Base - 1)
    ELSE QuotDigitNear(r, b,
             (BLimb(r, Len(b) + 1) * Base + BLimb(r, Len(b))) \div b[Len(b)])

\* One step of the long division by b: qr is <<the digits of the quotient so
\* far, the remainder so far>>, d the next lower digit of the dividend and t
\* the next digit of the quotient.
BDivEmit(qr, d, b, t) ==
    <<<<t>> \o qr[1], BSub(BNorm(<<d>> \o qr[2]), BMulSmall(b, t))>>

BDivStep(qr, d, b) == BDivEmit(qr, d, b, QuotDigit(BNorm(<<d>> \o qr[2]), b))

\* <<the digits of floor(a / b) from digit i up, the remainder>>, taking the
\* digits of a from the highest down to digit i: long division.
RECURSIVE BDivFrom(_, _, _)
BDivFrom(a, b, i) ==
    IF i > Len(a) THEN <<<<>>, <<>>>>
    ELSE BDivStep(BDivFrom(a, b, i + 1), a[i], b)

\* <<floor(a / b), whether a remainder is left>> from the result of BDivFrom.
BDivResult(qr) == <<BNorm(qr[1]), qr[2] /= <<>>>>

\* floor(a / b) and whether a remainder is left, b > 0.  Both are shifted
\* so that the highest digit of b is at least Base / 2.
BDivSticky(a, b) ==
    BDivResult(BDivFrom(BShl(a, 15 - BitLenInt(b[Len(b)])),
                        BShl(b, 15 - BitLenInt(b[Len(b)])), 1))

RECURSIVE Log2(_)
Log2(d) == IF d = 1 THEN 0 ELSE 1 + Log2(d \div 2)

IsSmall(x) == Len(x) = 2

\* -1, 0 or 1: the sign of a double.
Sign(x) ==
    IF IsSmall(x) THEN (IF x[1] < 0 THEN -1 ELSE IF x[1] = 0 THEN 0 ELSE 1)
    ELSE x[1]

\* |x| = Mant(x) * 2^Expo(x)
Mant(x) == IF IsSmall(x) THEN BFromInt(AbsInt(x[1])) ELSE x[2]

Expo(x) == IF IsSmall(x) THEN -Log2(x[2]) ELSE x[3]

\* The cell of the double s * m * 2^e, m odd and below 2^53.
PackOdd(s, m, e) ==
    IF e >= 0 /\ BBitLen(m) + e <= 20 THEN <<s * BToInt(m) * 2^e, 1>>
    ELSE IF e < 0 /\ -e <= 10 /\ BBitLen(m) <= 20 THEN <<s * BToInt(m), 2^(-e)>>
    ELSE <<s, m, e>>

\* The cell of the double s * M * 2^E, M > 0 of at most 53 bits.
Pack(s, M, E) ==
    PackOdd(s, BShr(M, BTrailingZeros(M)), E + BTrailingZeros(M))

\* The number of bits of M beyond 53.
Excess(M) == IF BBitLen(M) > 53 THEN BBitLen(M) - 53 ELSE 0

\* M without its k lowest bits, k > 0, rounded to nearest: one more when
\* the bits cut off are more than half of the last bit kept, or exactly half
\* and the last bit kept is 1.
CutAt(M, k) ==
    IF BBit(M, k - 1) = 1 /\ (BLowNonzero(M, k - 1) \/ BBit(M, k) = 1)
    THEN BAdd(BShr(M, k), <<1>>)
    ELSE BShr(M, k)

\* The double nearest to s * M * 2^E, M > 0, ties to the even mantissa.
Round(s, M, E) ==
    Pack(s, IF Excess(M) = 0 THEN M ELSE CutAt(M, Excess(M)), E + Excess(M))

\* The integer n as a double, |n| < 2^31.
F(n) ==
    IF AbsInt(n) < SmallNum THEN <<n, 1>>
    ELSE Pack(IF n < 0 THEN -1 ELSE 1, BFromInt(AbsInt(n)), 0)

\* The greatest power of two up to d that divides n, n /= 0.
RECURSIVE Pow2In(_, _)
Pow2In(n, d) ==
    IF d > 1 /\ n % 2 = 0 THEN 2 * Pow2In(n \div 2, d \div 2) ELSE 1

\* The double n / d for an integer n and a power of two d, |n| < 2^31, with
\* g the greatest power of two up to d that divides n.
DyadicBy(n, d, g) ==
    IF AbsInt(n) \div g < SmallNum /\ d \div g <= SmallDen
    THEN <<n \div g, d \div g>>
    ELSE Pack(IF n < 0 THEN -1 ELSE 1, BFromInt(AbsInt(n)), -Log2(d))

Dyadic(n, d) == IF n = 0 THEN <<0, 1>> ELSE DyadicBy(n, d, Pow2In(n, d))

Neg(x) == [x EXCEPT ![1] = -@]

Abs(x) == [x EXCEPT ![1] = AbsInt(@)]

\* The lower of the exponents of x and y.
MinExpo(x, y) == IF Expo(x) < Expo(y) THEN Expo(x) ELSE Expo(y)

\* The mantissa of x at the exponent e <= Expo(x).
MantAt(x, e) == BShl(Mant(x), Expo(x) - e)

\* -1, 0 or 1 as |x| < |y|, |x| = |y| or |x| > |y|, for x and y not 0.
CmpAbs(x, y) ==
    IF BBitLen(Mant(x)) + Expo(x) < BBitLen(Mant(y)) + Expo(y) THEN -1
    ELSE IF BBitLen(Mant(x)) + Expo(x) > BBitLen(Mant(y)) + Expo(y) THEN 1
    ELSE BCmp(MantAt(x, MinExpo(x, y)), MantAt(y, MinExpo(x, y)))

\* -1, 0 or 1 as x < y, x = y or x > y, for doubles x and y.
Cmp(x, y) ==
    IF IsSmall(x) /\ IsSmall(y)
    THEN (IF x[1] * y[2] < y[1] * x[2] THEN -1
          ELSE IF x[1] * y[2] > y[1] * x[2] THEN 1 ELSE 0)
    ELSE IF Sign(x) /= Sign(y) THEN (IF Sign(x) < Sign(y) THEN -1 ELSE 1)
    ELSE Sign(x) * CmpAbs(x, y)

\* sx * a + sy * b at the exponent e, rounded; c is the order of a and b.
AddAt(sx, a, sy, b, e, c) ==
    IF sx /= sy /\ c = 0 THEN <<0, 1>>
    ELSE Round(IF sx = sy \/ c > 0 THEN sx ELSE sy,
               IF sx = sy THEN BAdd(a, b)
               ELSE IF c > 0 THEN BSub(a, b) ELSE BSub(b, a),
               e)

\* x + y for x and y with the mantissas a and b at the exponent e.
AddAligned(x, y, a, b, e) == AddAt(Sign(x), a, Sign(y), b, e, BCmp(a, b))

\* x + y
Add(x, y) ==
    IF isna(x) \/ isna(y) THEN NaN
    ELSE IF Sign(y) = 0 THEN x
    ELSE IF Sign(x) = 0 THEN y
    ELSE IF IsSmall(x) /\ IsSmall(y)
    THEN (IF x[2] > y[2] THEN Dyadic(x[1] + y[1] * (x[2] \div y[2]), x[2])
          ELSE Dyadic(x[1] * (y[2] \div x[2]) + y[1], y[2]))
    ELSE AddAligned(x, y, MantAt(x, MinExpo(x, y)), MantAt(y, MinExpo(x, y)),
                    MinExpo(x, y))

\* x - y
Sub(x, y) == Add(x, Neg(y))

\* x * y
Mul(x, y) ==
    IF isna(x) \/ isna(y) THEN NaN
    ELSE IF Sign(x) = 0 \/ Sign(y) = 0 THEN <<0, 1>>
    ELSE IF /\ IsSmall(x) /\ IsSmall(y)
            /\ AbsInt(x[1]) < Base /\ AbsInt(y[1]) < Base
    THEN Dyadic(x[1] * y[1], x[2] * y[2])
    ELSE Round(Sign(x) * Sign(y), BMul(Mant(x), Mant(y)), Expo(x) + Expo(y))

\* The quotient of two mantissas as a mantissa to round: qs is <<floor of
\* the quotient, whether a remainder is left>>, and a last bit is added that
\* records the remainder.
WithSticky(qs) == BAdd(BShl(qs[1], 1), IF qs[2] THEN <<1>> ELSE <<>>)

\* x / y for x and y not 0, the mantissa of x shifted up by k bits.
DivBy(x, y, k) ==
    Round(Sign(x) * Sign(y),
          WithSticky(BDivSticky(BShl(Mant(x), k), Mant(y))),
          Expo(x) - Expo(y) - k - 1)

\* x / y for y not 0 (0 / 0 is NaN; the model divides by nothing else that
\* is 0): the quotient of the mantissas is taken to 55 bits or more.
Div(x, y) ==
    IF isna(x) \/ isna(y) \/ Sign(y) = 0 THEN NaN
    ELSE IF Sign(x) = 0 THEN <<0, 1>>
    ELSE DivBy(x, y, 55 + BBitLen(Mant(y)) - BBitLen(Mant(x)))

\* The double nearest to the fraction n/d of two integers: what a decimal
\* literal such as 0.1 denotes, in the source and in the data.
Rat(n, d) == Div(F(n), F(d))

Lt(x, y) == ~isna(x) /\ ~isna(y) /\ Cmp(x, y) < 0

Le(x, y) == ~isna(x) /\ ~isna(y) /\ Cmp(x, y) <= 0

Gt(x, y) == Lt(y, x)

Ge(x, y) == Le(y, x)

(* DataFrame helpers *)

\* The callsigns of the model, in the sorted order groupby iterates them in.
Callsigns == <<"AB123", "CD456">>

\* df.iloc[i], i counted from 0.
iloc(df, i) == df[i + 1]

\* df[mask]: the rows whose (1-based) position satisfies mask, in order.
RECURSIVE SelectRows(_, _, _)
SelectRows(df, keep, p) ==
    IF p > Len(df) THEN <<>>
    ELSE (IF p \in keep THEN <<df[p]>> ELSE <<>>) \o SelectRows(df, keep, p + 1)

\* One group of df.groupby('callsign'): the rows of that callsign, in df's order.
Group(df, c) == SelectRows(df, {p \in 1..Len(df) : df[p].callsign = c}, 1)

\* df.reset_index(drop=True): relabel 0..n-1.
reset_index(df) == [p \in 1..Len(df) |-> [df[p] EXCEPT !.idx = p - 1]]

Reverse(s) == [p \in 1..Len(s) |-> s[Len(s) + 1 - p]]

----------------------------------------------------------------------------
(* src/trackmiles.py *)

\* geopy's geodesic(point1, point2).kilometers for points (lat, lon).  The
\* tracks of the model lie on one meridian and lat is the arc position along
\* it in kilometres, so the distance is the absolute difference of the two.
geodesic(point1, point2) == Abs(Sub(point1[1], point2[1]))

\* rtm_loop with "rtm = ..." in place of "rtm += ...".
RECURSIVE rtm_loop_assign(_, _, _, _)
rtm_loop_assign(df, i, rtm, distances) ==
    IF i < 1 THEN distances
    ELSE LET point1 == <<iloc(df, i - 1).lat, iloc(df, i - 1).lon>>
             point2 == <<iloc(df, i).lat, iloc(df, i).lon>>
             rtm2 == IF iloc(df, i).onground THEN F(0)
                     ELSE geodesic(point1, point2)
         IN  rtm_loop_assign(df, i - 1, rtm2, Append(distances, rtm2))

\* The body of "for i in range(len(df) - 1, 0, -1)", from i downwards;
\* returns the list distances.
RECURSIVE rtm_loop(_, _, _, _)
rtm_loop(df, i, rtm, distances) ==
    IF i < 1 THEN distances
    ELSE LET point1 == <<iloc(df, i - 1).lat, iloc(df, i - 1).lon>>
             point2 == <<iloc(df, i).lat, iloc(df, i).lon>>
             rtm2 == IF iloc(df, i).onground THEN F(0)
                     ELSE Add(rtm, geodesic(point1, point2))
         IN  rtm_loop(df, i - 1, rtm2, Append(distances, rtm2))

\* calculate_rtm that reverses the rows of the track in place of the list
\* distances.
calculate_rtm_reversed(df) ==
    LET distances == rtm_loop(df, Len(df) - 1, F(0), <<F(0)>>)
    IN  [p \in 1..Len(df) |-> ("rtm" :> distances[p]) @@ df[Len(df) + 1 - p]]

calculate_rtm(df) ==
    LET distances == Reverse(rtm_loop(df, Len(df) - 1, F(0), <<F(0)>>))
    IN  [p \in 1..Len(df) |-> ("rtm" :> distances[p]) @@ df[p]]

\* groupby('callsign').apply(calculate_rtm): pd.concat of calculate_rtm(group)
\* over the groups in sorted key order, from the k-th key on (group_keys=True;
\* a callsign with no rows has no group).
RECURSIVE apply_calculate_rtm(_, _)
apply_calculate_rtm(df, k) ==
    IF k > Len(Callsigns) THEN <<>>
    ELSE (IF Group(df, Callsigns[k]) = <<>> THEN <<>>
          ELSE calculate_rtm(Group(df, Callsigns[k])))
         \o apply_calculate_rtm(df, k + 1)

\* reset_index(drop=True) relabels the rows 0..n-1.
calculate_remaining_track_miles(df) ==
    reset_index(apply_calculate_rtm(df, 1))

----------------------------------------------------------------------------
(* Inputs of the remaining-track-miles stage *)

MaxLenRtm == 3

RtmTimes == {100, 200}

RtmLats == {F(0), F(5), F(8)}

RtmCells == [callsign : {Callsigns[k] : k \in 1..Len(Callsigns)},
             time : RtmTimes, lat : RtmLats, lon : {F(0)},
             geoaltitude : {F(1000)}, onground : BOOLEAN]

\* A DataFrame as read_csv returns it: the cells, labelled 0..n-1.
Frame(cells) == [p \in 1..Len(cells) |-> ("idx" :> (p - 1)) @@ cells[p]]

InitRtm ==
    /\ \E n \in 1..MaxLenRtm : \E cells \in [1..n -> RtmCells] :
           adsb_data = Frame(cells)
    /\ prev = <<>>
    /\ arg = <<>>
    /\ op = "load_csv_gzip"
    /\ airport_coords = <<F(0), F(0)>>
    /\ removed = {}
    /\ prev_op = "none"
    /\ raw = adsb_data

\* The call of main.py line 27 on a loaded frame:
\* adsb_data = trackmiles.calculate_remaining_track_miles(df=adsb_data)
CalculateRemainingTrackMiles ==
    /\ op = "load_csv_gzip"
    /\ adsb_data' = calculate_remaining_track_miles(adsb_data)
    /\ prev' = adsb_data
    /\ arg' = adsb_data
    /\ op' = "calculate_remaining_track_miles"
    /\ prev_op' = op
    /\ UNCHANGED <<airport_coords, removed, raw>>

NextRtm == CalculateRemainingTrackMiles

SpecRtm == InitRtm /\ [][NextRtm]_vars

----------------------------------------------------------------------------
(* Claims about calculate_rtm *)

\* Sum of the geodesic distances between consecutive rows j..k of a track.
RECURSIVE PathLen(_, _, _)
PathLen(T, j, k) ==
    IF j >= k THEN F(0)
    ELSE Add(geodesic(<<T[j].lat, T[j].lon>>, <<T[j + 1].lat, T[j + 1].lon>>),
             PathLen(T, j + 1, k))

RtmDone == op = "calculate_remaining_track_miles"

CallsignSet == {Callsigns[k] : k \in 1..Len(Callsigns)}

TimeOrdered(T) == \A p \in 1..Len(T) : \A q \in p..Len(T) : T[p].time <= T[q].time

RtmOf(T) == [p \in 1..Len(T) |-> T[p].rtm]

\* C1: in a time-ordered track, a row k with onground = true gets rtm = 0 and
\* every earlier row j of the same ground-free run gets the distance from j to k.
C1_GroundContactResets ==
    RtmDone =>
        \A c \in CallsignSet :
            LET T == Group(prev, c)
                O == Group(adsb_data, c)
            IN  TimeOrdered(T) =>
                    \A k \in 1..Len(T) :
                        T[k].onground =>
                            /\ O[k].rtm = F(0)
                            /\ \A j \in 1..(k - 1) :
                                   (\A m \in j..(k - 1) : ~T[m].onground)
                                       => O[j].rtm = PathLen(T, j, k)

\* C2: whatever the input order, the row with the greatest time of a track
\* gets rtm = 0.
C2_LatestRowIsZero ==
    RtmDone =>
        \A c \in CallsignSet :
            LET T == Group(prev, c)
                O == Group(adsb_data, c)
            IN  \A p \in 1..Len(T) :
                    (\A q \in 1..Len(T) : q /= p => T[q].time < T[p].time)
                        => O[p].rtm = F(0)

\* C3: in a track without any onground row, row j gets the summed distance
\* between the consecutive rows j..n, so the last row gets 0.
C3_GroundFreeTrackSums ==
    RtmDone =>
        \A c \in CallsignSet :
            LET T == Group(prev, c)
                O == Group(adsb_data, c)
            IN  (\A m \in 1..Len(T) : ~T[m].onground) =>
                    /\ Len(O) = Len(T)
                    /\ \A j \in 1..Len(T) : O[j].rtm = PathLen(T, j, Len(T))

\* The example of C3: a time-ordered track, distances 5 and 3, no ground
\* contact, result [8, 3, 0].
C3_Witness ==
    /\ RtmDone
    /\ Len(prev) = 3
    /\ \A p \in 1..3 : prev[p].callsign = "AB123" /\ ~prev[p].onground
    /\ TimeOrdered(prev)
    /\ <<prev[1].lat, prev[2].lat, prev[3].lat>> = <<F(0), F(5), F(8)>>
    /\ RtmOf(adsb_data) = <<F(8), F(3), F(0)>>

\* C4: every rtm is >= 0, it never decreases from a row to the next older one
\* while the newer row is not on the ground, and an onground row has rtm = 0.
C4_MonotoneUntilGround ==
    RtmDone =>
        \A c \in CallsignSet :
            LET T == Group(prev, c)
                O == Group(adsb_data, c)
            IN  /\ \A p \in 1..Len(T) : Ge(O[p].rtm, F(0))
                /\ \A p \in 2..Len(T) :
                       ~T[p].onground => Ge(O[p - 1].rtm, O[p].rtm)
                /\ \A p \in 1..Len(T) : T[p].onground => O[p].rtm = F(0)

\* C11: the stage returns one row per input row; the rows of each track keep
\* their relative order and all their columns, and rtm is the only column
\* added (reset_index relabels the rows, the label is not a column).
C11_OnlyRtmAdded ==
    RtmDone =>
        /\ Len(adsb_data) = Len(prev)
        /\ \A c \in CallsignSet :
               LET T == Group(prev, c)
                   O == Group(adsb_data, c)
               IN  /\ Len(O) = Len(T)
                   /\ \A p \in 1..Len(T) :
                          /\ "rtm" \notin DOMAIN T[p]
                          /\ DOMAIN O[p] = DOMAIN T[p] \cup {"rtm"}
                          /\ \A f \in DOMAIN T[p] \ {"idx"} :
                                 O[p][f] = T[p][f]

\* Two interleaved tracks: the output is grouped by callsign, and the two
\* rows of CD456 keep their order and their values.
C11_Witness ==
    /\ RtmDone
    /\ Len(prev) = 3
    /\ <<prev[1].callsign, prev[2].callsign, prev[3].callsign>>
           = <<"CD456", "AB123", "CD456">>
    /\ prev[1].lat = F(5) /\ prev[3].lat = F(0)
    /\ prev[1].time = 200 /\ prev[3].time = 100
    /\ adsb_data[1].callsign = "AB123"
    /\ adsb_data[2].lat = F(5) /\ adsb_data[3].lat = F(0)
    /\ adsb_data[2].time = 200 /\ adsb_data[3].time = 100

----------------------------------------------------------------------------
(* src/data_preprocessing.py (the same code is in src/data_processing.py):  *)
(* filter_flights and drop_nan_rows                                         *)

\* The half-width of the airport window, 0.1 degrees.
AreaThreshold == Rat(1, 10)

\* The altitude below which a row counts as low, in metres.
AltitudeLimit == 1000

within_airport_area(row, coords) ==
    /\ Lt(Abs(Sub(row.lat, coords[1])), AreaThreshold)
    /\ Lt(Abs(Sub(row.lon, coords[2])), AreaThreshold)

\* filtered_df with ~(geoaltitude >= 1000) for the altitude test: a missing
\* altitude passes it.
filtered_df_notge(df, coords) ==
    SelectRows(df, {p \in 1..Len(df) :
                        /\ ~Ge(df[p].geoaltitude, F(AltitudeLimit))
                        /\ within_airport_area(df[p], coords)}, 1)

\* df[(df['geoaltitude'] < 1000) & df.apply(within_airport_area, axis=1)]
filtered_df(df, coords) ==
    SelectRows(df, {p \in 1..Len(df) :
                        /\ Lt(df[p].geoaltitude, F(AltitudeLimit))
                        /\ within_airport_area(df[p], coords)}, 1)

\* filter_flights returning the matching rows instead of their tracks.
filter_flights_rows(df, coords) == filtered_df(df, coords)

\* filter_flights returning the tracks without their matching rows.
filter_flights_others(df, coords) ==
    LET unique == {filtered_df(df, coords)[q].callsign :
                       q \in 1..Len(filtered_df(df, coords))}
    IN  SelectRows(df, {p \in 1..Len(df) :
                            /\ df[p].callsign \in unique
                            /\ ~(/\ Lt(df[p].geoaltitude, F(AltitudeLimit))
                                 /\ within_airport_area(df[p], coords))}, 1)

\* df[df['callsign'].isin(filtered_df['callsign'].unique())]
filter_flights(df, coords) ==
    LET unique == {filtered_df(df, coords)[q].callsign :
                       q \in 1..Len(filtered_df(df, coords))}
    IN  SelectRows(df, {p \in 1..Len(df) : df[p].callsign \in unique}, 1)

\* drop_nan_rows with 'lon' left out of the subset.
drop_nan_rows_latalt(df) ==
    SelectRows(df, {p \in 1..Len(df) :
                        ~isna(df[p].lat) /\ ~isna(df[p].geoaltitude)}, 1)

\* df.dropna(subset=['lat', 'lon', 'geoaltitude'])
drop_nan_rows(df) ==
    SelectRows(df, {p \in 1..Len(df) :
                        /\ ~isna(df[p].lat)
                        /\ ~isna(df[p].lon)
                        /\ ~isna(df[p].geoaltitude)}, 1)

----------------------------------------------------------------------------
(* Inputs of the airport filter and the row sanitizer *)

MaxLenSel == 2

\* Degrees; 0.1 lies on the edge of the window of an airport at 0.
SelLats == {Rat(9, 100), Rat(1, 10), NaN}

SelLons == {Rat(1, 10), NaN}

SelAltitudes == {F(999), F(1000), NaN}

\* (lat, lon): lat 0 leaves 0.09 inside and 0.1 on the edge, lat 0.2 leaves
\* 0.09 outside and 0.1 on the edge (0.1 - 0.2 is -0.1 in float64); lon 0.05
\* leaves 0.1 inside, lon 0 on the edge.
Airports == {<<F(0), Rat(1, 20)>>, <<F(0), F(0)>>, <<Rat(1, 5), Rat(1, 20)>>}

SelCells == [callsign : {Callsigns[k] : k \in 1..Len(Callsigns)},
             lat : SelLats, lon : SelLons, geoaltitude : SelAltitudes]

InitSel ==
    /\ \E n \in 1..MaxLenSel : \E cells \in [1..n -> SelCells] :
           adsb_data = Frame(cells)
    /\ airport_coords \in Airports
    /\ prev = <<>>
    /\ arg = <<>>
    /\ op = "load_csv_gzip"
    /\ removed = {}
    /\ prev_op = "none"
    /\ raw = adsb_data

\* main.py line 22: adsb_data = data_processing.drop_nan_rows(df=adsb_data)
DropNanRows ==
    /\ adsb_data' = drop_nan_rows(adsb_data)
    /\ prev' = adsb_data
    /\ arg' = adsb_data
    /\ op' = "drop_nan_rows"
    /\ prev_op' = op
    /\ UNCHANGED <<airport_coords, removed, raw>>

\* adsb_data = filter_flights(adsb_data, airport_coords), the function called
\* with a (lat, lon) pair as its signature asks.  (main.py line 23 passes
\* airport_ICAO_code instead, a keyword the function does not take; that
\* call raises TypeError whatever ran before it and is not this action.)
FilterFlights ==
    /\ adsb_data' = filter_flights(adsb_data, airport_coords)
    /\ prev' = adsb_data
    /\ arg' = adsb_data
    /\ op' = "filter_flights"
    /\ prev_op' = op
    /\ UNCHANGED <<airport_coords, removed, raw>>

NextSel == DropNanRows \/ FilterFlights

SpecSel == InitSel /\ [][NextSel]_vars

----------------------------------------------------------------------------
(* Claims about filter_flights and drop_nan_rows *)

\* A row that is near the airport and low; a missing value never qualifies.
QualifyingRow(r, coords) ==
    /\ ~isna(r.lat) /\ ~isna(r.lon) /\ ~isna(r.geoaltitude)
    /\ Lt(Abs(Sub(r.lat, coords[1])), Rat(1, 10))
    /\ Lt(Abs(Sub(r.lon, coords[2])), Rat(1, 10))
    /\ Lt(r.geoaltitude, F(1000))

QualifyingTrack(df, c, coords) ==
    \E q \in 1..Len(df) : df[q].callsign = c /\ QualifyingRow(df[q], coords)

RowSet(df) == {df[p] : p \in 1..Len(df)}

\* C5: filter_flights returns exactly the rows of the tracks that have at
\* least one qualifying row: all rows of such a track, none of any other.
C5_FilterKeepsWholeTracks ==
    op = "filter_flights" =>
        /\ RowSet(adsb_data) =
               {r \in RowSet(prev) : QualifyingTrack(prev, r.callsign, airport_coords)}
        /\ Len(adsb_data) = Cardinality(RowSet(adsb_data))

\* A track is returned together with a row of it that does not qualify.
C5_Witness ==
    /\ op = "filter_flights"
    /\ \E r \in RowSet(adsb_data) : ~QualifyingRow(r, airport_coords)
    /\ \E r \in RowSet(adsb_data) : QualifyingRow(r, airport_coords)

Complete(r) == ~isna(r.lat) /\ ~isna(r.lon) /\ ~isna(r.geoaltitude)

\* The position of row r in df.
PosIn(df, r) == CHOOSE p \in 1..Len(df) : df[p] = r

\* C9: drop_nan_rows returns exactly the rows with lon, lat and geoaltitude
\* all present, in their input order.
C9_DropNanExact ==
    op = "drop_nan_rows" =>
        /\ \A o \in 1..Len(adsb_data) : Complete(adsb_data[o])
        /\ \A r \in RowSet(prev) : Complete(r) => r \in RowSet(adsb_data)
        /\ \A o \in 1..Len(adsb_data) : adsb_data[o] \in RowSet(prev)
        /\ \A o1 \in 1..Len(adsb_data) : \A o2 \in 1..Len(adsb_data) :
               o1 < o2 => PosIn(prev, adsb_data[o1]) < PosIn(prev, adsb_data[o2])

\* A row with only lon missing is dropped and a complete row after it is kept.
C9_Witness ==
    /\ op = "drop_nan_rows"
    /\ Len(prev) = 2
    /\ isna(prev[1].lon) /\ ~isna(prev[1].lat) /\ ~isna(prev[1].geoaltitude)
    /\ Complete(prev[2])
    /\ adsb_data = <<prev[2]>>

\* C10: filtering an already filtered DataFrame with the same airport returns
\* the same rows in the same order.
C10_FilterIdempotent ==
    [][(op = "filter_flights" /\ op' = "filter_flights") => adsb_data' = adsb_data]_vars

\* filter_flights has run twice in a row on data it had reduced the first
\* time, and rows are left.
C10_Witness ==
    /\ op = "filter_flights" /\ prev_op = "filter_flights"
    /\ drop_nan_rows(raw) = raw
    /\ adsb_data /= raw
    /\ adsb_data /= <<>>
    /\ adsb_data = prev

\* C16: sanitizing and then filtering the loaded rows (the order in which
\* main.py names the two functions) gives the rows, in the order, that
\* filtering and then sanitizing them gives, and the other way round.
C16_FilterDropCommute ==
    /\ ( /\ op = "filter_flights" /\ prev_op = "drop_nan_rows"
          /\ prev = drop_nan_rows(raw) )
       => adsb_data = drop_nan_rows(filter_flights(raw, airport_coords))
    /\ ( /\ op = "drop_nan_rows" /\ prev_op = "filter_flights"
          /\ prev = filter_flights(raw, airport_coords) )
       => adsb_data = filter_flights(drop_nan_rows(raw), airport_coords)

\* A track of two rows, one with a missing value and one that qualifies:
\* sanitized first and then filtered, the qualifying row is what is left.
C16_Witness ==
    /\ op = "filter_flights" /\ prev_op = "drop_nan_rows"
    /\ Len(raw) = 2
    /\ raw[1].callsign = raw[2].callsign
    /\ ~Complete(raw[1])
    /\ QualifyingRow(raw[2], airport_coords)
    /\ prev = <<raw[2]>>
    /\ adsb_data = <<raw[2]>>

----------------------------------------------------------------------------
(* src/data_preprocessing.py (the same code is in src/data_processing.py):  *)
(* remove_outliers_geoaltitude                                              *)

\* The default of the parameter threshold.
threshold_default == 200

SetMax(S) == CHOOSE m \in S : \A x \in S : x <= m

SetMin(S) == CHOOSE m \in S : \A x \in S : m <= x

\* shift1 without the groupby: the geoaltitude of the row before, whatever
\* its callsign.
shift1_ungrouped(df, p) ==
    IF p = 1 THEN NaN ELSE df[p - 1].geoaltitude

\* df.groupby('callsign')['geoaltitude'].shift(1) at position p: the
\* geoaltitude of the previous row of the same callsign, NaN for the first.
shift1(df, p) ==
    LET earlier == {q \in 1..(p - 1) : df[q].callsign = df[p].callsign}
    IN  IF earlier = {} THEN NaN ELSE df[SetMax(earlier)].geoaltitude

\* df after the two column assignments: prev_geoaltitude and altitude_diff.
with_altitude_diff(df) ==
    [p \in 1..Len(df) |->
        ("prev_geoaltitude" :> shift1(df, p))
        @@ ("altitude_diff" :> Sub(df[p].geoaltitude, shift1(df, p)))
        @@ df[p]]

\* jump_labels reading the previous altitude after its own nulling: a row
\* that follows a nulled row has no delta and is never nulled.
RECURSIVE jump_labels_inplace(_, _)
jump_labels_inplace(df, threshold) ==
    IF df = <<>> THEN {}
    ELSE LET head == SubSeq(df, 1, Len(df) - 1)
             last == df[Len(df)]
             before == jump_labels_inplace(head, threshold)
             earlier == {q \in 1..Len(head) : head[q].callsign = last.callsign}
             prevalt == IF earlier = {} THEN NaN
                        ELSE IF head[SetMax(earlier)].idx \in before THEN NaN
                        ELSE head[SetMax(earlier)].geoaltitude
             diff == Sub(last.geoaltitude, prevalt)
         IN  IF ~isna(diff) /\ Gt(Abs(diff), F(threshold))
             THEN before \cup {last.idx} ELSE before

\* The index labels the loop over the groups nulls (and logs): the rows
\* whose altitude_diff is present and exceeds the threshold in absolute value.
jump_labels(df, threshold) ==
    {df[p].idx : p \in {q \in 1..Len(df) :
                           /\ ~isna(df[q].altitude_diff)
                           /\ Gt(Abs(df[q].altitude_diff), F(threshold))}}

\* df.loc[index, 'geoaltitude'] = np.nan for every label in labels.
null_rows(df, labels) ==
    [p \in 1..Len(df) |->
        IF df[p].idx \in labels THEN [df[p] EXCEPT !.geoaltitude = NaN] ELSE df[p]]

\* df.drop(columns=['prev_geoaltitude', 'altitude_diff'])
drop_helper_columns(df) ==
    [p \in 1..Len(df) |->
        [f \in (DOMAIN df[p]) \ {"prev_geoaltitude", "altitude_diff"} |-> df[p][f]]]

\* interpolate_at with method='pad': a missing value takes the last valid
\* value before it.
interpolate_at_pad(x, p) ==
    LET before == {q \in 1..(p - 1) : ~isna(x[q])}
    IN  IF ~isna(x[p]) THEN x[p]
        ELSE IF before = {} THEN NaN
        ELSE x[SetMax(before)]

\* x.interpolate(method='linear') at position p of the series x: positions
\* are equally spaced, the default direction is forward, so NaN before the
\* first valid value stays and NaN after the last valid value takes it.
\* Between two valid values pandas has numpy's interp fill in: the slope
\* (x[j] - x[i]) / (j - i) of the two neighbours is taken first, then
\* slope * (p - i) + x[i], each step rounded.
interpolate_at(x, p) ==
    LET before == {q \in 1..(p - 1) : ~isna(x[q])}
        after == {q \in (p + 1)..Len(x) : ~isna(x[q])}
    IN  IF ~isna(x[p]) THEN x[p]
        ELSE IF before = {} THEN NaN
        ELSE IF after = {} THEN x[SetMax(before)]
        ELSE LET i == SetMax(before)
                 j == SetMin(after)
                 slope == Div(Sub(x[j], x[i]), Sub(F(j - 1), F(i - 1)))
             IN  Add(Mul(slope, Sub(F(p - 1), F(i - 1))), x[i])

interpolate(x) == [p \in 1..Len(x) |-> interpolate_at(x, p)]

\* df.groupby('callsign')['geoaltitude'].transform(interpolate) assigned back
\* to the column: row p takes the value of its position within its group.
interpolate_groups(df) ==
    [p \in 1..Len(df) |->
        LET g == Group(df, df[p].callsign)
            x == [q \in 1..Len(g) |-> g[q].geoaltitude]
            rank == Cardinality({q \in 1..p : df[q].callsign = df[p].callsign})
        IN  [df[p] EXCEPT !.geoaltitude = interpolate(x)[rank]]]

\* The caller's DataFrame after the call: the two helper columns were added
\* to it and the altitudes were nulled in it; the dropped copy is returned.
remove_outliers_geoaltitude_arg(df, threshold) ==
    null_rows(with_altitude_diff(df),
              jump_labels(with_altitude_diff(df), threshold))

remove_outliers_geoaltitude(df, threshold) ==
    interpolate_groups(
        drop_helper_columns(remove_outliers_geoaltitude_arg(df, threshold)))

----------------------------------------------------------------------------
(* Inputs of the altitude smoother: rows without missing values, as the   *)
(* row sanitizer leaves them                                               *)

MaxLenAlt == 4

AltAltitudes == {F(1000), F(1050), F(1100), F(1250), F(5000)}

AltCells == [callsign : {Callsigns[k] : k \in 1..Len(Callsigns)},
             geoaltitude : AltAltitudes]

InitAlt ==
    /\ \E n \in 1..MaxLenAlt : \E cells \in [1..n -> AltCells] :
           adsb_data = Frame(cells)
    /\ airport_coords = <<F(0), F(0)>>
    /\ prev = <<>>
    /\ arg = <<>>
    /\ op = "load_csv_gzip"
    /\ removed = {}
    /\ prev_op = "none"
    /\ raw = adsb_data

\* The call of main.py line 25 on a loaded frame:
\* adsb_data = data_processing.remove_outliers_geoaltitude(df=adsb_data)
RemoveOutliersGeoaltitude ==
    /\ op = "load_csv_gzip"
    /\ adsb_data' = remove_outliers_geoaltitude(adsb_data, threshold_default)
    /\ prev' = adsb_data
    /\ arg' = remove_outliers_geoaltitude_arg(adsb_data, threshold_default)
    /\ removed' = jump_labels(with_altitude_diff(adsb_data), threshold_default)
    /\ op' = "remove_outliers_geoaltitude"
    /\ prev_op' = op
    /\ UNCHANGED <<airport_coords, raw>>

NextAlt == RemoveOutliersGeoaltitude

SpecAlt == InitAlt /\ [][NextAlt]_vars

----------------------------------------------------------------------------
(* Claims about remove_outliers_geoaltitude *)

AltDone == op = "remove_outliers_geoaltitude"

AltitudesOf(df) == [p \in 1..Len(df) |-> df[p].geoaltitude]

\* Row i of track T jumps: it is not the first row and its altitude differs
\* from the altitude of the row before it by more than 200.
Jumps(T, i) ==
    /\ i > 1
    /\ Gt(Abs(Sub(T[i].geoaltitude, T[i - 1].geoaltitude)), F(200))

\* C6: the rows nulled in a track are exactly the rows i > 0 whose altitude
\* differs from that of row i-1 by more than the threshold, both taken from
\* the untouched input; the first row of a track is never nulled.
C6_NulledExactlyJumps ==
    AltDone =>
        \A c \in CallsignSet :
            LET T == Group(prev, c)
                N == Group(arg, c)
            IN  \A i \in 1..Len(T) :
                    /\ (T[i].idx \in removed) <=> Jumps(T, i)
                    /\ isna(N[i].geoaltitude) <=> Jumps(T, i)
                    /\ ~Jumps(T, i) => N[i].geoaltitude = T[i].geoaltitude

\* The example of C6: [1000, 1050, 5000, 1100], rows 2 and 3 are nulled.
C6_Witness ==
    /\ AltDone
    /\ Len(prev) = 4
    /\ \A p \in 1..4 : prev[p].callsign = "AB123"
    /\ AltitudesOf(prev) = <<F(1000), F(1050), F(5000), F(1100)>>
    /\ removed = {2, 3}

\* Position i of the nulled series N lies in a leading or a trailing run of
\* missing values.
InEndRun(N, i) ==
    /\ isna(N[i].geoaltitude)
    /\ \/ \A j \in 1..i : isna(N[j].geoaltitude)
       \/ \A j \in i..Len(N) : isna(N[j].geoaltitude)

\* C7: a missing or nulled altitude with no known altitude before it, or
\* none after it, in its track is still missing in the output, and the
\* output is missing nowhere else.
C7_EndRunsStayMissing ==
    AltDone =>
        \A c \in CallsignSet :
            LET N == Group(arg, c)
                O == Group(adsb_data, c)
            IN  \A i \in 1..Len(N) :
                    isna(O[i].geoaltitude) <=> InEndRun(N, i)

\* C12: the call leaves the caller's DataFrame as it was: the same columns
\* and the same altitude in every row.
C12_InputNotMutated ==
    AltDone => arg = prev

\* x and y differ by less than 2^-20: by rounding only.
Close(x, y) == Lt(Abs(Sub(x, y)), Rat(1, 2^20))

\* C13: a run of missing altitudes between a known altitude a at position i
\* and a known altitude b at position j of the same track is filled evenly by
\* position, a + (m - i) * (b - a) / (j - i) at position m (up to the
\* rounding of float64), and an altitude that was not nulled is the input's.
C13_InnerRunsInterpolated ==
    AltDone =>
        \A c \in CallsignSet :
            LET T == Group(prev, c)
                N == Group(arg, c)
                O == Group(adsb_data, c)
            IN  /\ \A i \in 1..Len(N) : \A j \in (i + 2)..Len(N) :
                       ( /\ ~isna(N[i].geoaltitude)
                         /\ ~isna(N[j].geoaltitude)
                         /\ \A m \in (i + 1)..(j - 1) : isna(N[m].geoaltitude) )
                       => \A m \in (i + 1)..(j - 1) :
                              Close(O[m].geoaltitude,
                                    Add(N[i].geoaltitude,
                                        Div(Mul(F(m - i),
                                                Sub(N[j].geoaltitude,
                                                    N[i].geoaltitude)),
                                            F(j - i))))
                /\ \A p \in 1..Len(N) :
                       ~isna(N[p].geoaltitude)
                           => O[p].geoaltitude = T[p].geoaltitude

\* A run of two nulled rows between 1000 and 1250 is filled with the thirds.
C13_Witness ==
    /\ AltDone
    /\ Len(prev) = 4
    /\ \A p \in 1..4 : prev[p].callsign = "AB123"
    /\ AltitudesOf(prev) = <<F(1000), F(5000), F(1050), F(1250)>>
    /\ removed = {1, 2}
    /\ adsb_data[1].geoaltitude = F(1000)
    /\ Close(adsb_data[2].geoaltitude, Rat(3250, 3))
    /\ Close(adsb_data[3].geoaltitude, Rat(3500, 3))
    /\ adsb_data[4].geoaltitude = F(1250)

----------------------------------------------------------------------------
(* src/data_preprocessing.py (the same code is in src/data_processing.py):  *)
(* remove_outliers                                                          *)

\* The non-missing values of column col of a group, in row order.
RECURSIVE valid_values(_, _, _)
valid_values(group, col, p) ==
    IF p > Len(group) THEN <<>>
    ELSE (IF isna(group[p][col]) THEN <<>> ELSE <<group[p][col]>>)
         \o valid_values(group, col, p + 1)

\* The sorted sequence s with the value v inserted in its place.
RECURSIVE insert_sorted(_, _)
insert_sorted(s, v) ==
    IF s = <<>> THEN <<v>>
    ELSE IF Le(v, s[1]) THEN <<v>> \o s
    ELSE <<s[1]>> \o insert_sorted(Tail(s), v)

\* The values of the sequence x in ascending order.
RECURSIVE sort_values(_)
sort_values(x) ==
    IF x = <<>> THEN <<>> ELSE insert_sorted(sort_values(Tail(x)), x[1])

\* numpy's _lerp(a, b, t), the value at the fraction t of the way from a to
\* b: a + (b - a) * t, and b - (b - a) * (1 - t) from t = 0.5 on.
lerp(a, b, t) ==
    IF Ge(t, Rat(1, 2)) THEN Sub(b, Mul(Sub(b, a), Sub(F(1), t)))
    ELSE Add(a, Mul(Sub(b, a), t))

\* Series.quantile(num/den) with linear interpolation: position (n-1)*num/den
\* in the sorted non-missing values, NaN when there is none.  The position
\* is a whole number plus a fraction of quarters (den is 4), which float64
\* holds exactly.
quantile(group, col, num, den) ==
    LET x == sort_values(valid_values(group, col, 1))
        n == Len(x)
        lo == ((n - 1) * num) \div den
        rem == ((n - 1) * num) % den
    IN  IF n = 0 THEN NaN
        ELSE IF rem = 0 THEN x[lo + 1]
        ELSE lerp(x[lo + 1], x[lo + 2], Rat(rem, den))

\* group[['lon', 'lat', 'geoaltitude']].quantile(num/den): one value per column.
quantiles(group, num, den) ==
    <<quantile(group, "lon", num, den), quantile(group, "lat", num, den),
      quantile(group, "geoaltitude", num, den)>>

\* Q1 - 1.5 * IQR, per column.
lower_bound(Q1, Q3) ==
    <<Sub(Q1[1], Mul(Rat(3, 2), Sub(Q3[1], Q1[1]))),
      Sub(Q1[2], Mul(Rat(3, 2), Sub(Q3[2], Q1[2]))),
      Sub(Q1[3], Mul(Rat(3, 2), Sub(Q3[3], Q1[3])))>>

\* Q3 + 1.5 * IQR, per column.
upper_bound(Q1, Q3) ==
    <<Add(Q3[1], Mul(Rat(3, 2), Sub(Q3[1], Q1[1]))),
      Add(Q3[2], Mul(Rat(3, 2), Sub(Q3[2], Q1[2]))),
      Add(Q3[3], Mul(Rat(3, 2), Sub(Q3[3], Q1[3])))>>

\* rows_within with > and < in place of >= and <=.
rows_within_strict(group, lower, upper) ==
    SelectRows(group,
               {p \in 1..Len(group) :
                    /\ Gt(group[p].lon, lower[1]) /\ Lt(group[p].lon, upper[1])
                    /\ Gt(group[p].lat, lower[2]) /\ Lt(group[p].lat, upper[2])
                    /\ Gt(group[p].geoaltitude, lower[3])
                    /\ Lt(group[p].geoaltitude, upper[3])}, 1)

\* The rows of group inside [lower, upper] in all three columns.
rows_within(group, lower, upper) ==
    SelectRows(group,
               {p \in 1..Len(group) :
                    /\ Ge(group[p].lon, lower[1]) /\ Le(group[p].lon, upper[1])
                    /\ Ge(group[p].lat, lower[2]) /\ Le(group[p].lat, upper[2])
                    /\ Ge(group[p].geoaltitude, lower[3])
                    /\ Le(group[p].geoaltitude, upper[3])}, 1)

filter_outliers(group) ==
    LET Q1 == quantiles(group, 1, 4)
        Q3 == quantiles(group, 3, 4)
    IN  rows_within(group, lower_bound(Q1, Q3), upper_bound(Q1, Q3))

\* pd.concat of filter_outliers(group) over the groups in sorted key order,
\* from the k-th key on (group_keys=False).
RECURSIVE apply_filter_outliers(_, _)
apply_filter_outliers(df, k) ==
    IF k > Len(Callsigns) THEN <<>>
    ELSE (IF Group(df, Callsigns[k]) = <<>> THEN <<>>
          ELSE filter_outliers(Group(df, Callsigns[k])))
         \o apply_filter_outliers(df, k + 1)

\* groupby('callsign', group_keys=False).apply(filter_outliers): when every
\* group comes back with its index unchanged pandas restores the original
\* row order, otherwise the result stays concatenated in key order.
remove_outliers(df) ==
    LET df_cleaned == apply_filter_outliers(df, 1)
    IN  IF Len(df_cleaned) = Len(df) THEN df ELSE df_cleaned

----------------------------------------------------------------------------
(* Inputs of the spatial outlier remover: rows without missing values, as *)
(* the row sanitizer leaves them                                           *)

MaxLenOut == 4

\* (lon, lat, geoaltitude).  Of four values 0, 0, 1, v the upper bound is
\* 5 for v = 5 (on the bound) and 5.625 for v = 6 (outside).
OutPoints == {<<F(0), F(0), F(0)>>, <<F(1), F(0), F(0)>>, <<F(5), F(0), F(0)>>,
              <<F(6), F(0), F(0)>>, <<F(0), F(6), F(0)>>, <<F(0), F(0), F(6)>>}

\* Two doubles next to each other, 1 + 2^-52 and 1 + 2^-51: the value
\* halfway between them is not a double.
OutNear == {Add(F(1), Pack(1, <<1>>, -52)), Add(F(1), Pack(1, <<1>>, -51))}

\* The second track takes the two neighbouring doubles for its lon.
OutCells == {[callsign |-> Callsigns[1], lon |-> pt[1], lat |-> pt[2],
              geoaltitude |-> pt[3]] : pt \in OutPoints}
            \cup {[callsign |-> Callsigns[2], lon |-> v, lat |-> F(0),
                   geoaltitude |-> F(0)] : v \in OutNear}

InitOut ==
    /\ \E n \in 1..MaxLenOut : \E cells \in [1..n -> OutCells] :
           adsb_data = Frame(cells)
    /\ airport_coords = <<F(0), F(0)>>
    /\ prev = <<>>
    /\ arg = <<>>
    /\ op = "load_csv_gzip"
    /\ removed = {}
    /\ prev_op = "none"
    /\ raw = adsb_data

\* main.py line 24: adsb_data = data_processing.remove_outliers(df=adsb_data)
RemoveOutliers ==
    /\ op = "load_csv_gzip"
    /\ adsb_data' = remove_outliers(adsb_data)
    /\ prev' = adsb_data
    /\ arg' = adsb_data
    /\ op' = "remove_outliers"
    /\ prev_op' = op
    /\ UNCHANGED <<airport_coords, removed, raw>>

NextOut == RemoveOutliers

SpecOut == InitOut /\ [][NextOut]_vars

----------------------------------------------------------------------------
(* Claims about remove_outliers *)

\* [Q1 - 1.5*IQR, Q3 + 1.5*IQR] of column col of track T as <<low, high>>,
\* the quartiles taken over all rows of T.
Bounds(T, col) ==
    LET Q1 == quantile(T, col, 1, 4)
        Q3 == quantile(T, col, 3, 4)
    IN  <<Sub(Q1, Mul(Rat(3, 2), Sub(Q3, Q1))), Add(Q3, Mul(Rat(3, 2), Sub(Q3, Q1)))>>

\* The rows of track T with a value strictly outside the bounds of its column.
OutsideRows(T) ==
    LET lon == Bounds(T, "lon")
        lat == Bounds(T, "lat")
        alt == Bounds(T, "geoaltitude")
    IN  {r \in RowSet(T) :
             \/ Lt(r.lon, lon[1]) \/ Gt(r.lon, lon[2])
             \/ Lt(r.lat, lat[1]) \/ Gt(r.lat, lat[2])
             \/ Lt(r.geoaltitude, alt[1]) \/ Gt(r.geoaltitude, alt[2])}

\* C8: remove_outliers drops a row if and only if its lon, lat or
\* geoaltitude lies strictly outside the bounds of its own track taken
\* before any removal; every surviving row lies within all three bounds.
C8_DroppedIffOutside ==
    op = "remove_outliers" =>
        /\ \A c \in CallsignSet :
               RowSet(Group(adsb_data, c)) =
                   RowSet(Group(prev, c)) \ OutsideRows(Group(prev, c))
        /\ Len(adsb_data) = Cardinality(RowSet(adsb_data))

\* A track of four rows loses the row whose lon is outside while the rows
\* of the same track that are inside stay.
C8_Witness ==
    /\ op = "remove_outliers"
    /\ Len(prev) = 4
    /\ \A p \in 1..4 : prev[p].callsign = "AB123"
    /\ Len(adsb_data) = 3
    /\ \E r \in RowSet(prev) : r.lon = F(6) /\ r \notin RowSet(adsb_data)

\* C14: a track of 1, 2 or 3 rows comes back whole, whatever its values:
\* the bounds taken from its own quartiles contain every one of its rows.
C14_ShortTracksKept ==
    op = "remove_outliers" =>
        \A c \in CallsignSet :
            Len(Group(prev, c)) < 4 =>
                /\ Group(adsb_data, c) = Group(prev, c)
                /\ OutsideRows(Group(prev, c)) = {}

----------------------------------------------------------------------------
(* The per-track stages of main.py in sequence: line 24, then line 25 on   *)
(* what line 24 returned, then line 27 on what line 25 returned; the rows   *)
(* carry every column                                                       *)

MaxLenTracks == 5

\* (lat, geoaltitude, onground)
TrackPoints == {<<F(0), F(1000), FALSE>>, <<F(5), F(5000), FALSE>>,
                <<F(0), F(1000), TRUE>>}

\* The second track takes only the last two points.
TrackCells == {[callsign |-> Callsigns[1], time |-> 100, lon |-> F(0),
                lat |-> pt[1], geoaltitude |-> pt[2], onground |-> pt[3]] :
                   pt \in TrackPoints}
              \cup {[callsign |-> Callsigns[2], time |-> 100, lon |-> F(0),
                     lat |-> pt[1], geoaltitude |-> pt[2], onground |-> pt[3]] :
                        pt \in {<<F(5), F(5000), FALSE>>, <<F(0), F(1000), TRUE>>}}

InitTracks ==
    /\ \E n \in 1..MaxLenTracks : \E cells \in [1..n -> TrackCells] :
           adsb_data = Frame(cells)
    /\ airport_coords = <<F(0), F(0)>>
    /\ prev = <<>>
    /\ arg = <<>>
    /\ op = "load_csv_gzip"
    /\ removed = {}
    /\ prev_op = "none"
    /\ raw = adsb_data

\* main.py line 25 after line 24:
\* adsb_data = data_processing.remove_outliers_geoaltitude(df=adsb_data)
PipelineRemoveOutliersGeoaltitude ==
    /\ op = "remove_outliers"
    /\ adsb_data' = remove_outliers_geoaltitude(adsb_data, threshold_default)
    /\ prev' = adsb_data
    /\ arg' = remove_outliers_geoaltitude_arg(adsb_data, threshold_default)
    /\ removed' = jump_labels(with_altitude_diff(adsb_data), threshold_default)
    /\ op' = "remove_outliers_geoaltitude"
    /\ prev_op' = op
    /\ UNCHANGED <<airport_coords, raw>>

\* main.py line 27 after line 25:
\* adsb_data = trackmiles.calculate_remaining_track_miles(df=adsb_data)
PipelineCalculateRemainingTrackMiles ==
    /\ op = "remove_outliers_geoaltitude"
    /\ adsb_data' = calculate_remaining_track_miles(adsb_data)
    /\ prev' = adsb_data
    /\ arg' = adsb_data
    /\ op' = "calculate_remaining_track_miles"
    /\ prev_op' = op
    /\ UNCHANGED <<airport_coords, removed, raw>>

NextTracks ==
    \/ RemoveOutliers
    \/ PipelineRemoveOutliersGeoaltitude
    \/ PipelineCalculateRemainingTrackMiles

SpecTracks == InitTracks /\ [][NextTracks]_vars

----------------------------------------------------------------------------
(* Claims about the per-track stages *)

\* The rows without their index label.
Columns(df) ==
    [p \in 1..Len(df) |-> [f \in (DOMAIN df[p]) \ {"idx"} |-> df[p][f]]]

\* C15: what a per-track stage returns for a track depends on the rows of
\* that track only: the rows of track c in the stage's output are the
\* output of the stage applied to the rows of c alone, so two inputs that
\* agree on the rows of c agree on its output rows (which survive, their
\* altitude, their rtm), whatever the other tracks hold.
C15_TracksIndependent ==
    \A c \in CallsignSet :
        /\ op = "remove_outliers" =>
               Group(adsb_data, c) = remove_outliers(Group(prev, c))
        /\ op = "remove_outliers_geoaltitude" =>
               Group(adsb_data, c) =
                   remove_outliers_geoaltitude(Group(prev, c), threshold_default)
        /\ RtmDone =>
               Columns(Group(adsb_data, c)) =
                   Columns(calculate_remaining_track_miles(Group(prev, c)))

\* Two interleaved tracks through the three stages: AB123 loses its row at
\* 5000 in remove_outliers while the row of CD456 at 5000 stays, and the
\* rows end in key order, relabelled.
C15_Witness ==
    /\ RtmDone
    /\ prev_op = "remove_outliers_geoaltitude"
    /\ Len(raw) = 5
    /\ [p \in 1..5 |-> raw[p].callsign]
           = <<"AB123", "CD456", "AB123", "AB123", "AB123">>
    /\ AltitudesOf(raw) = <<F(1000), F(5000), F(1000), F(1000), F(5000)>>
    /\ \A p \in 1..5 : ~raw[p].onground
    /\ [p \in 1..Len(prev) |-> prev[p].idx] = <<0, 2, 3, 1>>
    /\ [p \in 1..Len(adsb_data) |-> adsb_data[p].idx] = <<0, 1, 2, 3>>
    /\ [p \in 1..Len(adsb_data) |-> adsb_data[p].callsign]
           = <<"AB123", "AB123", "AB123", "CD456">>
    /\ AltitudesOf(adsb_data) = <<F(1000), F(1000), F(1000), F(5000)>>
    /\ RtmOf(adsb_data) = <<F(0), F(0), F(0), F(0)>>

====
